---- MODULE Spec2Model ----
\* Model of solar_sim: Battery, NetConsumptionProfile, SolarBatterySim with
\* simple_sim (Monte Carlo engine) and multi_year_sim (degradation driver).
\* Energies are integers in units of 1/S KWh; fractions are in 1/Den. Values are
\* exact reals (binary floating-point rounding of the program is not modelled).
EXTENDS Integers, Sequences, FiniteSets, TLC

\* ---- bounds ----
MaxYears == 3
NSims == 2
NDays == 2
MaxBats == 2

\* fraction denominator (fractions such as 0.1, 0.05 and 0.01 are k/Den)
Den == 100
\* scale of 1 KWh: the degradation profiles of the input domain have at most two
\* entries, so with the reserve every derived value is exact in units of Den^-3 KWh
S == Den * Den * Den
\* standard-normal draws of the sampler, reduced to a finite set of z-scores
Z == {-2, 2}

RECURSIVE SumSeq(_)
SumSeq(s) == IF s = <<>> THEN 0 ELSE Head(s) + SumSeq(Tail(s))

Abs(x) == IF x < 0 THEN -x ELSE x

AccessibleMut(c, r) == (c * r) \div Den

\* Battery.accessible_capacity = capacity - reserve
Accessible(c, r) == (c * (Den - r)) \div Den

Caps(bats) == [i \in DOMAIN bats |-> bats[i].cap]

TotalCap(bats) == SumSeq(Caps(bats))

TotalAcc(bats) == SumSeq([i \in DOMAIN bats |-> Accessible(bats[i].cap, bats[i].reserve)])

DegFracMut(deg, k) == IF k <= Len(deg) THEN deg[k] ELSE IF deg = <<>> THEN 0 ELSE deg[Len(deg)]

\* fraction applied in year k (1-based) of a degradation profile; none once exhausted
DegFrac(deg, k) == IF k <= Len(deg) THEN deg[k] ELSE 0

DegradeCapMut(v, f) == (v * (Den + f)) \div Den

\* battery capacity after one year of degradation (compounding on current value)
DegradeCap(v, f) == (v * (Den - f)) \div Den

DegradeBattery(b, k) == [b EXCEPT !.cap = DegradeCap(b.cap, DegFrac(b.deg, k))]

MeanDegradeMut(m, f) == (m * (Den - f)) \div Den

\* profile mean after one year of degradation: it worsens by f of its magnitude
MeanDegrade(m, f) == (m * Den - Abs(m) * f) \div Den

SampleMut(mean, stdv, z) == stdv + z * mean

\* ScenarioSampler: one day's draw mean + z * stdv
Sample(mean, stdv, z) == mean + z * stdv

Days(mean, stdv, zv) == [d \in DOMAIN zv |-> Sample(mean, stdv, zv[d])]

EvaluateMut(days, acc) ==
    LET t == SumSeq(days) + acc IN [success |-> t > 0, total_net |-> t]

\* OutcomeEvaluator: total_net = sum(days) + accessible capacity; SUCCESS iff
\* total_net >= 0 (spec 4.2: exactly covering consumption succeeds)
Evaluate(days, acc) ==
    LET t == SumSeq(days) + acc IN [success |-> t >= 0, total_net |-> t]

Outcomes(zs, mean, stdv, acc) ==
    [t \in DOMAIN zs |-> Evaluate(Days(mean, stdv, zs[t]), acc)]

Successes(outs) == Cardinality({t \in DOMAIN outs : outs[t].success})

\* sampled scenarios of one engine run: n trials of d daily draws. The sum that the
\* evaluator takes and the success count are invariant under reordering days and
\* trials, so the draws are enumerated up to that order: days nondecreasing within
\* a trial, trials nondecreasing by their day sum.
SortedDraws(d) == {v \in [1..d -> Z] : \A i \in 1..d-1 : v[i] <= v[i+1]}

TrialSets(n, d) == {zs \in [1..n -> SortedDraws(d)] :
                        \A t \in 1..n-1 : SumSeq(zs[t]) <= SumSeq(zs[t+1])}

\* the trial sets for every configurable (n_simulations, n_consecutive_days)
TrialTable == [n \in 0..NSims, d \in 0..NDays |-> TrialSets(n, d)]

\* SolarSimResult (p_success = succ / n)
Result(bats, mean, stdv, ndays, zs) ==
    LET outs == Outcomes(zs, mean, stdv, TotalAcc(bats))
    IN [succ |-> Successes(outs),
        n |-> Len(zs), ndays |-> ndays, stdv |-> stdv,
        cap |-> TotalCap(bats), acc |-> TotalAcc(bats), mean |-> mean]

YearsRemainingMut(y, n) == y < n - 1

\* multi_year_sim loop condition
YearsRemaining(y, n) == y < n

ValidReserveMut(r) == 0 <= r /\ r <= Den

ValidReserve(r) == 0 <= r /\ r < Den

ValidConfig(nsims, ndays, stdv, bats) ==
    /\ nsims > 0
    /\ ndays >= 1
    /\ stdv >= 0
    /\ Len(bats) >= 1
    /\ \A i \in DOMAIN bats : ValidReserve(bats[i].reserve) /\ bats[i].cap > 0

\* ---- input domains ----
BatOpts == {[cap |-> 2 * S, reserve |-> 0, deg |-> <<10>>],
           [cap |-> 3 * S, reserve |-> 5, deg |-> <<10, 5>>],
           [cap |-> 2 * S, reserve |-> Den, deg |-> <<10>>]}
Fleets == UNION {[1..k -> BatOpts] : k \in 0..MaxBats}
MeanOpts == {-S, -2 * S}
StdvOpts == {-S, 0, S}
MDegOpts == {<<1>>, <<1, 1>>}
SimDayOpts == {<<0, NDays>>, <<NSims, 0>>, <<NSims, NDays>>}

NoCfg == [nsims |-> 0, ndays |-> 0, bats |-> <<>>, mean |-> 0, stdv |-> 0, mdeg |-> <<>>]
NoSim == [succ |-> 0, n |-> 0, ndays |-> 0, stdv |-> 0, cap |-> 0, acc |-> 0, mean |-> 0]
NoArgs == [op |-> "none", nsims |-> 0, ndays |-> 0, stdv |-> 0, bats |-> <<>>, nyears |-> 0]

VARIABLES configured, cfg, orig, pc, nYears, year, curBats, curMean, results,
          hist, lastSim, lastZ, lastOut,
          engineCalls, lastArgs, lastStatus, lastTrialsRun

vars == <<configured, cfg, orig, pc, nYears, year, curBats, curMean, results,
          hist, lastSim, lastZ, lastOut,
          engineCalls, lastArgs, lastStatus, lastTrialsRun>>

Init ==
    /\ configured = FALSE
    /\ cfg = NoCfg
    /\ orig = NoCfg
    /\ pc = "idle"
    /\ nYears = 0
    /\ year = 0
    /\ curBats = <<>>
    /\ curMean = 0
    /\ results = <<>>
    /\ hist = <<>>
    /\ lastSim = NoSim
    /\ lastZ = <<>>
    /\ lastOut = <<>>
    /\ engineCalls = 0
    /\ lastArgs = NoArgs
    /\ lastStatus = "none"
    /\ lastTrialsRun = 0

\* SolarBatterySim(label, n_simulations, n_consecutive_days, batteries, profile)
Construct ==
    /\ ~configured
    /\ lastStatus = "none"
    /\ \E sd \in SimDayOpts, bats \in Fleets, m \in MeanOpts, sv \in StdvOpts, md \in MDegOpts :
        LET c == [nsims |-> sd[1], ndays |-> sd[2], bats |-> bats, mean |-> m,
                  stdv |-> sv, mdeg |-> md]
        IN /\ lastArgs' = [op |-> "construct", nsims |-> sd[1], ndays |-> sd[2],
                           stdv |-> sv, bats |-> bats, nyears |-> 0]
           /\ lastTrialsRun' = 0
           /\ IF ValidConfig(sd[1], sd[2], sv, bats)
                THEN /\ configured' = TRUE
                     /\ cfg' = c
                     /\ orig' = c
                     /\ lastStatus' = "ok"
                ELSE /\ lastStatus' = "ConfigurationError"
                     /\ UNCHANGED <<configured, cfg, orig>>
    /\ UNCHANGED <<pc, nYears, year, curBats, curMean, results, hist, lastSim,
                   lastZ, lastOut, engineCalls>>

\* simple_sim(): n_simulations trials of sample -> evaluate
SimpleSim ==
    /\ configured
    /\ pc = "idle"
    /\ \E zs \in TrialTable[cfg.nsims, cfg.ndays] :
        /\ lastZ' = zs
        /\ lastOut' = Outcomes(zs, cfg.mean, cfg.stdv, TotalAcc(cfg.bats))
        /\ lastSim' = Result(cfg.bats, cfg.mean, cfg.stdv, cfg.ndays, zs)
    /\ lastArgs' = [op |-> "simple", nsims |-> cfg.nsims, ndays |-> cfg.ndays,
                    stdv |-> cfg.stdv, bats |-> cfg.bats, nyears |-> 0]
    /\ lastStatus' = "ok"
    /\ lastTrialsRun' = cfg.nsims
    /\ results' = <<>>
    /\ hist' = <<>>
    /\ UNCHANGED <<configured, cfg, orig, pc, nYears, year, curBats, curMean,
                   engineCalls>>

\* multi_year_sim(n_years): validation and set-up of the year loop
MultiStart ==
    /\ configured
    /\ pc = "idle"
    /\ \E n \in 0..MaxYears :
        /\ lastArgs' = [op |-> "multi", nsims |-> cfg.nsims, ndays |-> cfg.ndays,
                        stdv |-> cfg.stdv, bats |-> cfg.bats, nyears |-> n]
        /\ lastTrialsRun' = 0
        /\ IF n >= 1
             THEN /\ pc' = "multi"
                  /\ nYears' = n
                  /\ year' = 0
                  /\ curBats' = cfg.bats
                  /\ curMean' = cfg.mean
                  /\ results' = <<>>
                  /\ hist' = <<>>
                  /\ engineCalls' = 0
                  /\ lastStatus' = "running"
                  /\ lastSim' = NoSim
                  /\ lastZ' = <<>>
                  /\ lastOut' = <<>>
             ELSE /\ lastStatus' = "ConfigurationError"
                  /\ UNCHANGED <<pc, nYears, year, curBats, curMean, results, hist,
                                 engineCalls, lastSim, lastZ, lastOut>>
    /\ UNCHANGED <<configured, cfg, orig>>

\* one iteration of the year loop: simulate year `year`, then derive next year's values
MultiStep ==
    /\ pc = "multi"
    /\ YearsRemaining(year, nYears)
    \* the year's result for some draw of its trials (the draws themselves are not kept)
    /\ \E r \in {Result(curBats, curMean, cfg.stdv, cfg.ndays, zs) :
                    zs \in TrialTable[cfg.nsims, cfg.ndays]} :
        results' = Append(results, [year |-> year] @@ r)
    /\ hist' = Append(hist, [caps |-> Caps(curBats), mean |-> curMean])
    /\ curBats' = [i \in DOMAIN curBats |-> DegradeBattery(curBats[i], year + 1)]
    /\ curMean' = MeanDegrade(curMean, DegFrac(cfg.mdeg, year + 1))
    /\ year' = year + 1
    /\ engineCalls' = engineCalls + 1
    /\ lastTrialsRun' = lastTrialsRun + cfg.nsims
    /\ UNCHANGED <<configured, cfg, orig, pc, nYears, lastSim,
                   lastZ, lastOut, lastArgs, lastStatus>>

\* return of multi_year_sim once every year has been simulated
MultiEnd ==
    /\ pc = "multi"
    /\ ~YearsRemaining(year, nYears)
    /\ pc' = "idle"
    /\ lastStatus' = "ok"
    /\ UNCHANGED <<configured, cfg, orig, nYears, year, curBats, curMean, results,
                   hist, lastSim, lastZ, lastOut,
                   engineCalls, lastArgs, lastTrialsRun>>

Next == Construct \/ SimpleSim \/ MultiStart \/ MultiStep \/ MultiEnd

Spec == Init /\ [][Next]_vars

\* ---- properties ----

\* C1: in multi_year_sim each battery's capacity of year k (k <= profile length) is
\* the capacity of year k-1 times (1 - frac_k); year 0 is the undegraded capacity,
\* and the reported total_battery_capacity is the sum of the per-battery values.
C1_Compounding ==
    \A k \in 1..Len(hist) :
        /\ k = 1 => hist[1].caps = [i \in DOMAIN orig.bats |-> orig.bats[i].cap]
        /\ \A b \in DOMAIN orig.bats :
              (k > 1 /\ k - 1 <= Len(orig.bats[b].deg)) =>
                 hist[k].caps[b] * Den = hist[k-1].caps[b] * (Den - orig.bats[b].deg[k-1])
        /\ results[k].cap = SumSeq(hist[k].caps)

C1_Witness == Len(hist) >= 3 /\ \E b \in DOMAIN orig.bats : Len(orig.bats[b].deg) >= 2

\* C2 (as stated): the profile mean of year k (k <= profile length) is the mean of
\* year k-1 times (1 - frac_k); year 0 reports the original mean.
C2_Stated ==
    \A k \in 1..Len(hist) :
        /\ k = 1 => hist[1].mean = orig.mean
        /\ (k > 1 /\ k - 1 <= Len(orig.mdeg)) =>
              hist[k].mean * Den = hist[k-1].mean * (Den - orig.mdeg[k-1])
        /\ results[k].mean = hist[k].mean

\* C2 (amended): for a negative (net-draw) mean, the mean of year k is the mean of
\* year k-1 times (1 + frac_k): it becomes more negative; year 0 is the original.
C2_Amended ==
    \A k \in 1..Len(hist) :
        /\ hist[k].mean < 0
        /\ k = 1 => hist[1].mean = orig.mean
        /\ (k > 1 /\ k - 1 <= Len(orig.mdeg)) =>
              hist[k].mean * Den = hist[k-1].mean * (Den + orig.mdeg[k-1])
        /\ results[k].mean = hist[k].mean

C2_Witness == Len(hist) >= 3 /\ Len(orig.mdeg) >= 2

\* C3: accessible capacity is capacity times (1 - reserve) and at most the capacity;
\* a result's totals are the sums over the fleet (three 13.5 KWh batteries with a 5%
\* reserve give 40.5 and 38.475).
C3_Accessible ==
    /\ LET c == (27 * S) \div 2
       IN /\ 3 * c = 405 * (S \div 10)
          /\ 3 * Accessible(c, 5) = 38475 * (S \div 1000)
    /\ configured =>
         \A i \in DOMAIN cfg.bats :
            /\ Accessible(cfg.bats[i].cap, cfg.bats[i].reserve) * Den
                  = cfg.bats[i].cap * (Den - cfg.bats[i].reserve)
            /\ Accessible(cfg.bats[i].cap, cfg.bats[i].reserve) <= cfg.bats[i].cap
    /\ lastSim.n > 0 =>
         /\ lastSim.cap = SumSeq([i \in DOMAIN cfg.bats |-> cfg.bats[i].cap])
         /\ lastSim.acc * Den
               = SumSeq([i \in DOMAIN cfg.bats |-> cfg.bats[i].cap * (Den - cfg.bats[i].reserve)])
         /\ lastSim.acc <= lastSim.cap

C3_Witness == lastSim.n > 0 /\ Len(cfg.bats) >= 2 /\ \E i \in DOMAIN cfg.bats : cfg.bats[i].reserve > 0

\* C4: a trial succeeds iff sum(days) + accessible capacity >= 0 (an exact tie
\* succeeds), and the evaluator returns that total_net; days (-10,-5,-12,-7) with 28.5
\* give -5.5, a failure.
C4_Evaluator ==
    /\ Evaluate(<<-100, -50, -120, -70>>, 285) = [success |-> FALSE, total_net |-> -55]
    /\ \A t \in DOMAIN lastOut :
         LET tot == SumSeq([d \in DOMAIN lastZ[t] |-> lastSim.mean + lastZ[t][d] * lastSim.stdv])
                    + lastSim.acc
         IN /\ lastOut[t].total_net = tot
            /\ lastOut[t].success <=> tot >= 0

C4_Witness == \E t \in DOMAIN lastOut : lastOut[t].total_net = 0

\* C5: simple_sim runs n_simulations trials, p_success = successes / n_simulations is in
\* [0,1], and with stdv = 0 it is exactly 1 if acc + days * mean >= 0 and exactly 0 otherwise.
C5_SimpleSim ==
    lastSim.n > 0 =>
        /\ lastSim.n = cfg.nsims
        /\ Len(lastOut) = cfg.nsims
        /\ lastSim.succ = Cardinality({t \in DOMAIN lastOut : lastOut[t].success})
        /\ 0 <= lastSim.succ /\ lastSim.succ <= lastSim.n
        /\ lastSim.stdv = 0 =>
              lastSim.succ = IF lastSim.acc + lastSim.ndays * lastSim.mean >= 0
                             THEN lastSim.n ELSE 0

C5_Witness == lastSim.n > 0 /\ lastSim.stdv = 0 /\ lastSim.acc + lastSim.ndays * lastSim.mean = 0

\* C6: multi_year_sim(n) returns n results for years 0..n-1 in order, runs the engine once
\* per year with the configured n_simulations and n_consecutive_days, and year 0 reports
\* the undegraded totals that a direct simple_sim reports.
C6_MultiYear ==
    (lastArgs.op = "multi" /\ lastStatus = "ok") =>
        /\ Len(results) = lastArgs.nyears
        /\ engineCalls = lastArgs.nyears
        /\ \A i \in 1..Len(results) :
              /\ results[i].year = i - 1
              /\ results[i].n = cfg.nsims
              /\ results[i].ndays = cfg.ndays
        /\ results[1].cap = SumSeq([i \in DOMAIN orig.bats |-> orig.bats[i].cap])
        /\ results[1].acc = TotalAcc(orig.bats)
        /\ results[1].mean = orig.mean

C6_Witness == lastArgs.op = "multi" /\ lastStatus = "ok" /\ lastArgs.nyears >= 2

\* C7: once a degradation profile of length L is exhausted, every later year reports
\* the value of year L (capacity per battery, and the profile mean).
C7_Plateau ==
    \A k \in 1..Len(hist) :
        /\ \A b \in DOMAIN orig.bats :
              k - 1 > Len(orig.bats[b].deg) =>
                 hist[k].caps[b] = hist[Len(orig.bats[b].deg) + 1].caps[b]
        /\ k - 1 > Len(orig.mdeg) => hist[k].mean = hist[Len(orig.mdeg) + 1].mean

C7_Witness == Len(hist) >= 3 /\ \E b \in DOMAIN orig.bats : Len(orig.bats[b].deg) = 1

\* C9: a call with n_simulations <= 0, n_consecutive_days < 1, stdv < 0, a reserve outside
\* [0,1), an empty fleet or n_years < 1 raises ConfigurationError, runs no trial and
\* produces no result.
C9_FailFast ==
    [][ LET a == lastArgs'
        IN (a.op /= "none" /\
            (\/ a.nsims <= 0 \/ a.ndays < 1 \/ a.stdv < 0 \/ a.bats = <<>>
             \/ \E i \in DOMAIN a.bats : a.bats[i].reserve < 0 \/ a.bats[i].reserve >= Den
             \/ (a.op = "multi" /\ a.nyears < 1)))
           => /\ lastStatus' = "ConfigurationError"
              /\ lastTrialsRun' = 0
              /\ pc' = "idle"
              /\ configured' = configured
              /\ results' = results
              /\ lastSim' = lastSim ]_vars

C9_Witness == lastStatus = "ConfigurationError" /\ \E i \in DOMAIN lastArgs.bats : lastArgs.bats[i].reserve = Den

\* C10 (as stated): across the years of multi_year_sim p_success does not increase.
C10_Stated ==
    \A i \in 1..Len(results) - 1 : results[i+1].succ <= results[i].succ

\* C10 (amended): for fixed sampled scenarios the success count does not decrease when the
\* accessible capacity grows or the mean rises, so it does not increase from one year of
\* multi_year_sim to a later one; each year's fresh samples can still raise p_success.
C10_Amended ==
    /\ \A i, j \in 1..Len(results) :
          i < j =>
             \A zv \in [1..cfg.ndays -> Z] :
                Successes(Outcomes(<<zv>>, results[j].mean, cfg.stdv, results[j].acc))
                   <= Successes(Outcomes(<<zv>>, results[i].mean, cfg.stdv, results[i].acc))
    /\ lastSim.n > 0 =>
          /\ Successes(Outcomes(lastZ, lastSim.mean, lastSim.stdv, lastSim.acc + S)) >= lastSim.succ
          /\ Successes(Outcomes(lastZ, lastSim.mean - S, lastSim.stdv, lastSim.acc)) <= lastSim.succ

C10_Witness == Len(results) >= 2 /\ results[2].acc < results[1].acc /\ cfg.stdv > 0

====
